---- MODULE Spec2Model ----
(***************************************************************************)
(* Smart Pause Resume (GNOME Shell extension): the arbitration engine of   *)
(* smart-pause-resume@gnome-extension/extension.js as a state machine.     *)
(*                                                                         *)
(* The extension object's fields are the variables with the source's       *)
(* names.  Every asynchronous D-Bus call (bus_get, proxy creation,         *)
(* ListNames, Properties.Get, Pause, Play) and every GLib source (the idle *)
(* source of enable(), the resume-delay timeouts) is a counter of calls in *)
(* flight; its callback is an action of its own.  The session bus and the  *)
(* players are the environment: which bus names are owned, which           *)
(* PlaybackStatus a player announces and whether a call succeeds are       *)
(* chosen freely.                                                          *)
(***************************************************************************)
EXTENDS Naturals, Sequences, FiniteSets

(* The MPRIS bus names of the model; a session runs some of them. *)
Players == {"A", "B", "C", "D"}

(* PlaybackStatus values: the three of MPRIS and one unrecognised value. *)
Statuses == {"Playing", "Paused", "Stopped", "Other"}

(* Map.get of a key the map does not hold. *)
Absent == "Absent"

(* Pause, Play or Properties.Get calls, or resume-delay timeouts, in flight *)
(* for one bus name at one time.                                           *)
MaxInFlight == 2

(* Calls of one step of the initialization in flight at one time, and      *)
(* signal subscriptions of one kind (for one bus name) at one time.        *)
MaxSetup == 1

(* Events of the environment in one behaviour: PropertiesChanged signals, *)
(* NameOwnerChanged signals, changes of the 'enabled' setting, disable().  *)
MaxEvents == 3

(* The same in the session of four players that all play at startup. *)
MaxLifoEvents == 3

(* Proxy creations in flight for one bus name, and PropertiesChanged       *)
(* subscriptions for one bus name, in the session of a late player.        *)
MaxOverlap == 2

(* Events of the environment in the session of a late player. *)
MaxOverlapEvents == 3

(* The same in the session whose timeouts and calls are run. *)
MaxLiveEvents == 2

VARIABLES
  _settings,            \* this._settings is not null (between enable() and disable())
  _idleId,              \* this._idleId is not 0 (the idle source of enable() is pending)
  _connection,          \* this._connection is not null
  _nameOwnerChangedId,  \* this._nameOwnerChangedId is not null
  _dbusProxy,           \* this._dbusProxy is not null
  _players,             \* keys of this._players in insertion order
  _status,              \* this._status: bus name -> status, Absent when not a key
  _autoPaused,          \* this._autoPaused
  _pausedStack,         \* this._pausedStack, index 1 = top
  nameOwnerSubs,        \* active NameOwnerChanged subscriptions on the bus
  propSubs,             \* active PropertiesChanged subscriptions, per bus name of the closure
  busGetCalls,          \* Gio.bus_get calls in flight
  dbusProxyCalls,       \* creations of the org.freedesktop.DBus proxy in flight
  listNamesCalls,       \* ListNames calls in flight
  proxyCalls,           \* player proxy creations in flight, per bus name
  getCalls,             \* Properties.Get calls in flight, per bus name
  pauseCalls,           \* Pause calls in flight, per bus name
  playCalls,            \* Play calls in flight, per bus name
  timeouts,             \* resume-delay timeouts pending, per bus name
  enabled,              \* the GSettings key 'enabled'
  owned,                \* bus names that currently have an owner
  cachedPlaying,        \* bus names whose proxy caches PlaybackStatus = 'Playing'
  session,              \* the bus names of the players that run in this session
  budget,               \* events of the environment still to come
  userStopped,          \* history: bus names with a Paused/Stopped signal that was
                        \* processed with their auto-paused flag not set, and no
                        \* Pause call issued to them since
  pausedByUs            \* history: bus names with a Pause call that succeeded, and no
                        \* Paused/Stopped signal delivered with their flag not set since

vars == << _settings, _idleId, _connection, _nameOwnerChangedId, _dbusProxy,
           _players, _status, _autoPaused, _pausedStack, nameOwnerSubs, propSubs,
           busGetCalls, dbusProxyCalls, listNamesCalls, proxyCalls, getCalls,
           pauseCalls, playCalls, timeouts, enabled, owned, cachedPlaying,
           session, budget, userStopped, pausedByUs >>

(***************************************************************************)
(* The extension object as one value, so that a handler that calls other   *)
(* methods is the composition of their effects.                            *)
(***************************************************************************)
This ==
  [ settings |-> _settings, idleId |-> _idleId, connection |-> _connection,
    nameOwnerChangedId |-> _nameOwnerChangedId, dbusProxy |-> _dbusProxy,
    players |-> _players, status |-> _status, autoPaused |-> _autoPaused,
    pausedStack |-> _pausedStack, nameOwnerSubs |-> nameOwnerSubs,
    propSubs |-> propSubs, busGetCalls |-> busGetCalls,
    dbusProxyCalls |-> dbusProxyCalls, listNamesCalls |-> listNamesCalls,
    proxyCalls |-> proxyCalls, getCalls |-> getCalls, pauseCalls |-> pauseCalls,
    playCalls |-> playCalls, timeouts |-> timeouts ]

Becomes(t) ==
  /\ _settings' = t.settings
  /\ _idleId' = t.idleId
  /\ _connection' = t.connection
  /\ _nameOwnerChangedId' = t.nameOwnerChangedId
  /\ _dbusProxy' = t.dbusProxy
  /\ _players' = t.players
  /\ _status' = t.status
  /\ _autoPaused' = t.autoPaused
  /\ _pausedStack' = t.pausedStack
  /\ nameOwnerSubs' = t.nameOwnerSubs
  /\ propSubs' = t.propSubs
  /\ busGetCalls' = t.busGetCalls
  /\ dbusProxyCalls' = t.dbusProxyCalls
  /\ listNamesCalls' = t.listNamesCalls
  /\ proxyCalls' = t.proxyCalls
  /\ getCalls' = t.getCalls
  /\ pauseCalls' = t.pauseCalls
  /\ playCalls' = t.playCalls
  /\ timeouts' = t.timeouts

(* The result keeps every kind of call and subscription within its bound. *)
WithinBounds(t) ==
  /\ t.busGetCalls <= MaxSetup
  /\ t.dbusProxyCalls <= MaxSetup
  /\ t.listNamesCalls <= MaxSetup
  /\ t.nameOwnerSubs <= MaxSetup
  /\ \A p \in Players :
       /\ t.propSubs[p] <= MaxSetup
       /\ t.proxyCalls[p] <= MaxSetup
       /\ t.getCalls[p] <= MaxInFlight
       /\ t.pauseCalls[p] <= MaxInFlight
       /\ t.playCalls[p] <= MaxInFlight
       /\ t.timeouts[p] <= MaxInFlight

(***************************************************************************)
(* Helpers on sequences and maps.                                          *)
(***************************************************************************)
Range(s) == {s[i] : i \in 1..Len(s)}

Has(s, x) == x \in Range(s)

Without(s, x) == SelectSeq(s, LAMBDA y : y # x)

(* Map.set of this._players: a new key goes last, a known key keeps its place. *)
MapSet(s, x) == IF Has(s, x) THEN s ELSE Append(s, x)

(***************************************************************************)
(* The methods of SmartPauseResumeExtension.                               *)
(***************************************************************************)
(* Mutant of _resumeNext: the loop takes the entries from the bottom. *)
RECURSIVE ResumeOldest(_)
ResumeOldest(t) ==
  IF t.pausedStack = <<>> THEN t
  ELSE LET busName == t.pausedStack[Len(t.pausedStack)]
           u == [t EXCEPT !.pausedStack = SubSeq(@, 1, Len(@) - 1)]
       IN IF u.status[busName] = Absent \/ ~Has(u.players, busName)
          THEN ResumeOldest(u)
          ELSE [u EXCEPT !.playCalls[busName] = @ + 1]

(* Mutant of _pushStack: the name goes to the bottom of the stack. *)
PushStackBottom(t, busName) ==
  [t EXCEPT !.pausedStack = Append(Without(t.pausedStack, busName), busName)]

(* Mutant of _pushStack: unshift without the filter. *)
PushStackNoFilter(t, busName) ==
  [t EXCEPT !.pausedStack = <<busName>> \o t.pausedStack]

_pushStack(t, busName) ==
  [t EXCEPT !.pausedStack = <<busName>> \o Without(t.pausedStack, busName)]

_removeFromStack(t, busName) ==
  [t EXCEPT !.pausedStack = Without(t.pausedStack, busName)]

_anyPlaying(t) == \E p \in Players : t.status[p] = "Playing"

(* The loop of _resumeNext: shift entries until one is a key of _status and *)
(* of _players; call Play on that one and stop.                             *)
RECURSIVE _resumeNext(_)
_resumeNext(t) ==
  IF t.pausedStack = <<>> THEN t
  ELSE LET busName == Head(t.pausedStack)
           u == [t EXCEPT !.pausedStack = Tail(t.pausedStack)]
       IN IF u.status[busName] = Absent \/ ~Has(u.players, busName)
          THEN _resumeNext(u)
          ELSE [u EXCEPT !.playCalls[busName] = @ + 1]

_pausePlayer(t, busName) ==
  IF ~Has(t.players, busName) THEN t
  ELSE [t EXCEPT !.autoPaused = @ \cup {busName},
                 !.pauseCalls[busName] = @ + 1]

(* The loop of _pauseOthers over this._players, from index i. *)
RECURSIVE PauseOthersFrom(_, _, _)
PauseOthersFrom(t, currentBusName, i) ==
  IF i > Len(t.players) THEN t
  ELSE LET busName == t.players[i]
       IN PauseOthersFrom(
            IF busName # currentBusName /\ t.status[busName] = "Playing"
            THEN _pausePlayer(t, busName) ELSE t,
            currentBusName, i + 1)

(* Mutant of _pauseOthers: the loop misses the first entry of _players. *)
PauseOthersButFirst(t, currentBusName) == PauseOthersFrom(t, currentBusName, 2)

_pauseOthers(t, currentBusName) == PauseOthersFrom(t, currentBusName, 1)

(* Mutant of _onStatusChanged: the branch of a set flag does not return, so *)
(* the echo of a Pause call adds the timeout as well.                       *)
OnStatusChangedEchoFallsThrough(t, en, busName, status) ==
  IF ~t.settings \/ ~en THEN t
  ELSE LET u == [t EXCEPT !.status[busName] = status]
       IN IF status = "Playing"
          THEN _pauseOthers(
                 _removeFromStack([u EXCEPT !.autoPaused = @ \ {busName}], busName),
                 busName)
          ELSE IF status \in {"Paused", "Stopped"}
          THEN [u EXCEPT !.autoPaused = @ \ {busName},
                         !.timeouts[busName] = @ + 1]
          ELSE u

(* Mutant of _onStatusChanged: no look at the 'enabled' setting. *)
OnStatusChangedIgnoresSetting(t, en, busName, status) ==
  IF ~t.settings THEN t
  ELSE LET u == [t EXCEPT !.status[busName] = status]
       IN IF status = "Playing"
          THEN _pauseOthers(
                 _removeFromStack([u EXCEPT !.autoPaused = @ \ {busName}], busName),
                 busName)
          ELSE IF status \in {"Paused", "Stopped"}
          THEN IF busName \in u.autoPaused
               THEN [u EXCEPT !.autoPaused = @ \ {busName}]
               ELSE [u EXCEPT !.timeouts[busName] = @ + 1]
          ELSE u

(* Mutant of _onStatusChanged: 'Playing' leaves the stack alone. *)
OnStatusChangedKeepsEntry(t, en, busName, status) ==
  IF ~t.settings \/ ~en THEN t
  ELSE LET u == [t EXCEPT !.status[busName] = status]
       IN IF status = "Playing"
          THEN _pauseOthers([u EXCEPT !.autoPaused = @ \ {busName}], busName)
          ELSE IF status \in {"Paused", "Stopped"}
          THEN IF busName \in u.autoPaused
               THEN [u EXCEPT !.autoPaused = @ \ {busName}]
               ELSE [u EXCEPT !.timeouts[busName] = @ + 1]
          ELSE u

(* _onStatusChanged; en is the value of the 'enabled' setting. *)
_onStatusChanged(t, en, busName, status) ==
  IF ~t.settings \/ ~en THEN t
  ELSE LET u == [t EXCEPT !.status[busName] = status]
       IN IF status = "Playing"
          THEN _pauseOthers(
                 _removeFromStack([u EXCEPT !.autoPaused = @ \ {busName}], busName),
                 busName)
          ELSE IF status \in {"Paused", "Stopped"}
          THEN IF busName \in u.autoPaused
               THEN [u EXCEPT !.autoPaused = @ \ {busName}]
               ELSE [u EXCEPT !.timeouts[busName] = @ + 1]
          ELSE u

(* Mutant of TimeoutCallback: the callback forgets the resume. *)
TimeoutCallbackNoResume(t, cp, busName) ==
  IF Has(t.players, busName) /\ busName \in cp THEN t
  ELSE _removeFromStack(t, busName)

(* The callback of the timeout that _onStatusChanged adds; cp is the set of *)
(* bus names whose proxy caches 'Playing' (_getPlayerStatusCached).         *)
(* Mutant of TimeoutCallback: no look at the player's current status. *)
TimeoutCallbackStale(t, cp, busName) ==
  LET u == _removeFromStack(t, busName)
  IN IF ~_anyPlaying(u) THEN _resumeNext(u) ELSE u

TimeoutCallback(t, cp, busName) ==
  IF Has(t.players, busName) /\ busName \in cp THEN t
  ELSE LET u == _removeFromStack(t, busName)
       IN IF ~_anyPlaying(u) THEN _resumeNext(u) ELSE u

(* Mutant of _removePlayer: the auto-paused flag of busName is kept. *)
RemovePlayerKeepsFlag(t, busName) ==
  LET u == IF Has(t.players, busName)
           THEN [t EXCEPT !.players = Without(@, busName),
                          !.propSubs[busName] =
                             IF t.connection /\ @ > 0 THEN @ - 1 ELSE @]
           ELSE t
      v == _removeFromStack([u EXCEPT !.status[busName] = Absent], busName)
  IN IF ~_anyPlaying(v) THEN _resumeNext(v) ELSE v

(* Mutant of _removePlayer: the resume runs before the entries of busName  *)
(* are deleted.                                                            *)
RemovePlayerResumesFirst(t, busName) ==
  LET r == IF \A p \in Players \ {busName} : t.status[p] # "Playing"
           THEN _resumeNext(t) ELSE t
      u == IF Has(r.players, busName)
           THEN [r EXCEPT !.players = Without(@, busName),
                          !.propSubs[busName] =
                             IF r.connection /\ @ > 0 THEN @ - 1 ELSE @]
           ELSE r
  IN _removeFromStack(
       [u EXCEPT !.status[busName] = Absent, !.autoPaused = @ \ {busName}],
       busName)

_removePlayer(t, busName) ==
  LET u == IF Has(t.players, busName)
           THEN [t EXCEPT !.players = Without(@, busName),
                          !.propSubs[busName] =
                             IF t.connection /\ @ > 0 THEN @ - 1 ELSE @]
           ELSE t
      v == _removeFromStack(
             [u EXCEPT !.status[busName] = Absent,
                       !.autoPaused = @ \ {busName}],
             busName)
  IN IF ~_anyPlaying(v) THEN _resumeNext(v) ELSE v

_addPlayer(t, busName) ==
  IF Has(t.players, busName) THEN t
  ELSE [t EXCEPT !.proxyCalls[busName] = @ + 1]

(* _updatePlayerStatus; cached is what _getPlayerStatusCached returns. *)
(* Mutant of _updatePlayerStatus: a player found 'Paused' is stacked. *)
UpdatePlayerStatusStacks(t, en, busName, cached) ==
  IF cached # "Stopped"
  THEN IF cached = "Paused"
       THEN _pushStack(_onStatusChanged(t, en, busName, cached), busName)
       ELSE _onStatusChanged(t, en, busName, cached)
  ELSE [t EXCEPT !.getCalls[busName] = @ + 1]

_updatePlayerStatus(t, en, busName, cached) ==
  IF cached # "Stopped"
  THEN _onStatusChanged(t, en, busName, cached)
  ELSE [t EXCEPT !.getCalls[busName] = @ + 1]

_onPlayerProxyReady(t, en, busName, cached) ==
  IF ~t.connection \/ ~t.settings THEN t
  ELSE _updatePlayerStatus(
         [t EXCEPT !.propSubs[busName] = @ + 1,
                   !.players = MapSet(@, busName)],
         en, busName, cached)

(* _onNameOwnerChanged for an MPRIS name; old, new: the owner is not empty. *)
_onNameOwnerChanged(t, name, old, new) ==
  LET u == IF old THEN _removePlayer(t, name) ELSE t
  IN IF new THEN _addPlayer(u, name) ELSE u

(* The loop of disable() over this._players.keys(). *)
RECURSIVE RemoveAllPlayers(_)
RemoveAllPlayers(t) ==
  IF t.players = <<>> THEN t
  ELSE RemoveAllPlayers(_removePlayer(t, Head(t.players)))

disable(t) ==
  LET u == [t EXCEPT !.idleId = FALSE,
                     !.nameOwnerSubs =
                        IF t.nameOwnerChangedId /\ t.connection /\ @ > 0
                        THEN @ - 1 ELSE @,
                     !.nameOwnerChangedId =
                        IF t.nameOwnerChangedId /\ t.connection THEN FALSE ELSE @,
                     !.connection = FALSE,
                     !.dbusProxy = FALSE]
      v == RemoveAllPlayers(u)
  IN [v EXCEPT !.players = <<>>,
               !.status = [p \in Players |-> Absent],
               !.autoPaused = {},
               !.pausedStack = <<>>,
               !.settings = FALSE]

enable(t) == [t EXCEPT !.settings = TRUE, !.idleId = TRUE]

(* _initialize: the body of the idle callback of enable(). *)
_initialize(t) == [t EXCEPT !.busGetCalls = @ + 1]

_scanExistingPlayers(t) ==
  IF ~t.dbusProxy THEN t ELSE [t EXCEPT !.listNamesCalls = @ + 1]

(* The callback of Gio.bus_get in _initialize. *)
BusGetCallback(t, ok) ==
  LET u == [t EXCEPT !.busGetCalls = @ - 1]
  IN IF ok
     THEN [u EXCEPT !.connection = TRUE,
                    !.nameOwnerSubs = @ + 1,
                    !.nameOwnerChangedId = TRUE,
                    !.dbusProxyCalls = @ + 1]
     ELSE u

(* The callback of Gio.DBusProxy.new_for_bus in _initialize. *)
DBusProxyCallback(t, ok) ==
  LET u == [t EXCEPT !.dbusProxyCalls = @ - 1]
  IN IF ok THEN _scanExistingPlayers([u EXCEPT !.dbusProxy = TRUE]) ELSE u

(* The loop of the ListNames callback over the names of a set. *)
RECURSIVE AddPlayers(_, _)
AddPlayers(t, names) ==
  IF names = {} THEN t
  ELSE LET name == CHOOSE n \in names : TRUE
       IN AddPlayers(_addPlayer(t, name), names \ {name})

(* The callback of ListNames in _scanExistingPlayers. *)
ListNamesCallback(t, ok, names) ==
  LET u == [t EXCEPT !.listNamesCalls = @ - 1]
  IN IF ~u.settings THEN u
     ELSE IF ok THEN AddPlayers(u, names) ELSE u

(* The callback of Gio.DBusProxy.new_for_bus in _addPlayer. *)
PlayerProxyCallback(t, en, busName, ok, cached) ==
  LET u == [t EXCEPT !.proxyCalls[busName] = @ - 1]
  IN IF ok THEN _onPlayerProxyReady(u, en, busName, cached) ELSE u

(* The callback of Properties.Get in _updatePlayerStatus. *)
GetCallback(t, en, busName, ok, status) ==
  LET u == [t EXCEPT !.getCalls[busName] = @ - 1]
  IN IF ~u.settings THEN u
     ELSE IF ok THEN _onStatusChanged(u, en, busName, status)
     ELSE [u EXCEPT !.status[busName] = "Stopped"]

(* Mutant of PauseCallback: a Pause call that failed is issued again. *)
PauseCallbackRetries(t, busName, ok) ==
  LET u == [t EXCEPT !.pauseCalls[busName] = @ - 1]
  IN IF ~u.settings THEN u
     ELSE IF ok THEN _pushStack([u EXCEPT !.status[busName] = "Paused"], busName)
     ELSE _pausePlayer([u EXCEPT !.autoPaused = @ \ {busName}], busName)

(* Mutant of PauseCallback: a Pause call that failed leaves the flag. *)
PauseCallbackKeepsFlag(t, busName, ok) ==
  LET u == [t EXCEPT !.pauseCalls[busName] = @ - 1]
  IN IF ~u.settings THEN u
     ELSE IF ok THEN _pushStack([u EXCEPT !.status[busName] = "Paused"], busName)
     ELSE u

(* The callback of Pause in _pausePlayer. *)
(* Mutant of PauseCallback: no look at _settings. *)
PauseCallbackUnguarded(t, busName, ok) ==
  LET u == [t EXCEPT !.pauseCalls[busName] = @ - 1]
  IN IF ok THEN _pushStack([u EXCEPT !.status[busName] = "Paused"], busName)
     ELSE [u EXCEPT !.autoPaused = @ \ {busName}]

PauseCallback(t, busName, ok) ==
  LET u == [t EXCEPT !.pauseCalls[busName] = @ - 1]
  IN IF ~u.settings THEN u
     ELSE IF ok THEN _pushStack([u EXCEPT !.status[busName] = "Paused"], busName)
     ELSE [u EXCEPT !.autoPaused = @ \ {busName}]

(* Mutant of PlayCallback: a Play call that succeeded leaves the status. *)
PlayCallbackKeepsStatus(t, busName, ok) ==
  LET u == [t EXCEPT !.playCalls[busName] = @ - 1]
  IN IF ~u.settings THEN u
     ELSE IF ok THEN [u EXCEPT !.autoPaused = @ \ {busName}]
     ELSE _resumeNext(u)

(* The callback of Play in _resumeNext. *)
(* Mutant of PlayCallback: a failed Play puts the name back. *)
PlayCallbackRequeues(t, busName, ok) ==
  LET u == [t EXCEPT !.playCalls[busName] = @ - 1]
  IN IF ~u.settings THEN u
     ELSE IF ok
     THEN [u EXCEPT !.status[busName] = "Playing", !.autoPaused = @ \ {busName}]
     ELSE _pushStack(_resumeNext(u), busName)

PlayCallbackGivesUp(t, busName, ok) ==
  LET u == [t EXCEPT !.playCalls[busName] = @ - 1]
  IN IF ~u.settings THEN u
     ELSE IF ok
     THEN [u EXCEPT !.status[busName] = "Playing", !.autoPaused = @ \ {busName}]
     ELSE u

PlayCallback(t, busName, ok) ==
  LET u == [t EXCEPT !.playCalls[busName] = @ - 1]
  IN IF ~u.settings THEN u
     ELSE IF ok THEN [u EXCEPT !.status[busName] = "Playing",
                               !.autoPaused = @ \ {busName}]
     ELSE _resumeNext(u)

(* _onStatusChanged run by each of the n PropertiesChanged subscriptions  *)
(* made for busName.                                                      *)
RECURSIVE StatusSignal(_, _, _, _, _)
StatusSignal(t, en, busName, status, n) ==
  IF n = 0 THEN t
  ELSE StatusSignal(_onStatusChanged(t, en, busName, status), en, busName, status, n - 1)

(* _onNameOwnerChanged run by each of the n NameOwnerChanged subscriptions. *)
RECURSIVE OwnerSignal(_, _, _, _, _)
OwnerSignal(t, name, old, new, n) ==
  IF n = 0 THEN t
  ELSE OwnerSignal(_onNameOwnerChanged(t, name, old, new), name, old, new, n - 1)

(***************************************************************************)
(* The state after construction, in a session that runs the players of     *)
(* names and whose environment has events in store.                       *)
(***************************************************************************)
InitWith(names, events) ==
  /\ _settings = FALSE
  /\ _idleId = FALSE
  /\ _connection = FALSE
  /\ _nameOwnerChangedId = FALSE
  /\ _dbusProxy = FALSE
  /\ _players = <<>>
  /\ _status = [p \in Players |-> Absent]
  /\ _autoPaused = {}
  /\ _pausedStack = <<>>
  /\ nameOwnerSubs = 0
  /\ propSubs = [p \in Players |-> 0]
  /\ busGetCalls = 0
  /\ dbusProxyCalls = 0
  /\ listNamesCalls = 0
  /\ proxyCalls = [p \in Players |-> 0]
  /\ getCalls = [p \in Players |-> 0]
  /\ pauseCalls = [p \in Players |-> 0]
  /\ playCalls = [p \in Players |-> 0]
  /\ timeouts = [p \in Players |-> 0]
  /\ enabled = TRUE
  /\ session = names
  /\ owned = names
  /\ cachedPlaying = {}
  /\ budget = events
  /\ userStopped = {}
  /\ pausedByUs = {}

(* A session of two running players. *)
Init == InitWith({"A", "B"}, MaxEvents)

EnvUnchanged == UNCHANGED << enabled, owned, cachedPlaying, session, budget >>

(* The bus names to which the step from the current state to t issues Pause. *)
PauseIssued(t) == {p \in Players : t.pauseCalls[p] > pauseCalls[p]}

(* The history variables in a step to t that delivers no signal of a player. *)
HistoryAfter(t) ==
  /\ userStopped' = userStopped \ PauseIssued(t)
  /\ pausedByUs' = pausedByUs

(* One event of the environment is spent. *)
Spend == budget > 0 /\ budget' = budget - 1 /\ UNCHANGED session

(* GNOME Shell calls enable() on a disabled extension. *)
Enable ==
  /\ ~_settings
  /\ Becomes(enable(This))
  /\ EnvUnchanged
  /\ UNCHANGED << userStopped, pausedByUs >>

(* GNOME Shell calls disable() on an enabled extension. *)
Disable ==
  /\ _settings
  /\ Spend
  /\ LET t == disable(This) IN WithinBounds(t) /\ Becomes(t)
  /\ userStopped' = {}
  /\ pausedByUs' = {}
  /\ UNCHANGED << enabled, owned, cachedPlaying >>

(* The idle source of enable() runs. *)
IdleCallback ==
  /\ _idleId
  /\ LET t == _initialize([This EXCEPT !.idleId = FALSE])
     IN WithinBounds(t) /\ Becomes(t) /\ HistoryAfter(t)
  /\ EnvUnchanged

BusGetDoneOf(ok) ==
  /\ busGetCalls > 0
  /\ LET t == BusGetCallback(This, ok)
     IN WithinBounds(t) /\ Becomes(t) /\ HistoryAfter(t)
  /\ EnvUnchanged

BusGetDone == \E ok \in BOOLEAN : BusGetDoneOf(ok)

DBusProxyDoneOf(ok) ==
  /\ dbusProxyCalls > 0
  /\ LET t == DBusProxyCallback(This, ok)
     IN WithinBounds(t) /\ Becomes(t) /\ HistoryAfter(t)
  /\ EnvUnchanged

DBusProxyDone == \E ok \in BOOLEAN : DBusProxyDoneOf(ok)

ListNamesDoneOf(ok) ==
  /\ listNamesCalls > 0
  /\ LET t == ListNamesCallback(This, ok, owned)
     IN WithinBounds(t) /\ Becomes(t) /\ HistoryAfter(t)
  /\ EnvUnchanged

ListNamesDone == \E ok \in BOOLEAN : ListNamesDoneOf(ok)

(* A player proxy is ready (or its creation failed).  The proxy of a name  *)
(* without owner caches nothing, which _getPlayerStatusCached reads as     *)
(* 'Stopped'.                                                               *)
PlayerProxyDoneOf(busName, ok, cached) ==
    /\ proxyCalls[busName] > 0
    /\ busName \notin owned => cached = "Stopped"
    /\ ~ok => cached = "Stopped"
    /\ LET t == PlayerProxyCallback(This, enabled, busName, ok, cached)
       IN WithinBounds(t) /\ Becomes(t) /\ HistoryAfter(t)
    /\ cachedPlaying' = IF ~ok THEN cachedPlaying
                        ELSE IF cached = "Playing" THEN cachedPlaying \cup {busName}
                        ELSE cachedPlaying \ {busName}
    /\ UNCHANGED << enabled, owned, session, budget >>

PlayerProxyDone ==
  \E busName \in Players, ok \in BOOLEAN, cached \in Statuses :
    PlayerProxyDoneOf(busName, ok, cached)

(* A Properties.Get call returns; it succeeds only on a name with an owner. *)
GetDoneOf(busName, ok, status) ==
    /\ getCalls[busName] > 0
    /\ ok => busName \in owned
    /\ ~ok => status = "Stopped"
    /\ LET t == GetCallback(This, enabled, busName, ok, status)
       IN WithinBounds(t) /\ Becomes(t) /\ HistoryAfter(t)
    /\ EnvUnchanged

GetDone ==
  \E busName \in Players, ok \in BOOLEAN, status \in Statuses :
    GetDoneOf(busName, ok, status)

(* A Pause call returns; it succeeds only on a name with an owner. *)
PauseDoneOf(busName, ok) ==
    /\ pauseCalls[busName] > 0
    /\ ok => busName \in owned
    /\ LET t == PauseCallback(This, busName, ok) IN WithinBounds(t) /\ Becomes(t)
    /\ pausedByUs' = IF ok THEN pausedByUs \cup {busName} ELSE pausedByUs
    /\ UNCHANGED userStopped
    /\ EnvUnchanged

PauseDone == \E busName \in Players, ok \in BOOLEAN : PauseDoneOf(busName, ok)

(* A Play call returns; it succeeds only on a name with an owner. *)
PlayDoneOf(busName, ok) ==
    /\ playCalls[busName] > 0
    /\ ok => busName \in owned
    /\ LET t == PlayCallback(This, busName, ok) IN WithinBounds(t) /\ Becomes(t)
    /\ UNCHANGED << userStopped, pausedByUs >>
    /\ EnvUnchanged

PlayDone == \E busName \in Players, ok \in BOOLEAN : PlayDoneOf(busName, ok)

(* A resume-delay timeout fires. *)
TimeoutFiresOf(busName) ==
    /\ timeouts[busName] > 0
    /\ LET t == TimeoutCallback([This EXCEPT !.timeouts[busName] = @ - 1],
                                cachedPlaying, busName)
       IN WithinBounds(t) /\ Becomes(t)
    /\ UNCHANGED << userStopped, pausedByUs >>
    /\ EnvUnchanged

TimeoutFires == \E busName \in Players : TimeoutFiresOf(busName)

(* A player announces a PlaybackStatus: its proxies update their cache and *)
(* every PropertiesChanged subscription made for its bus name runs         *)
(* _onStatusChanged.                                                        *)
NotifyOf(busName, status) ==
    /\ Spend
    /\ busName \in owned
    /\ propSubs[busName] > 0
    /\ LET t == StatusSignal(This, enabled, busName, status, propSubs[busName])
           byUser == status \in {"Paused", "Stopped"} /\ busName \notin _autoPaused
       IN /\ WithinBounds(t) /\ Becomes(t)
          /\ userStopped' = (IF byUser /\ _settings /\ enabled
                              THEN userStopped \cup {busName} ELSE userStopped)
                             \ PauseIssued(t)
          /\ pausedByUs' = IF byUser THEN pausedByUs \ {busName} ELSE pausedByUs
    /\ cachedPlaying' = IF status = "Playing" THEN cachedPlaying \cup {busName}
                        ELSE cachedPlaying \ {busName}
    /\ UNCHANGED << enabled, owned >>

Notify == \E busName \in Players, status \in Statuses : NotifyOf(busName, status)

(* A player leaves the bus: NameOwnerChanged(name, old, ''). *)
VanishOf(busName) ==
    /\ busName \in owned
    /\ Spend
    /\ LET t == OwnerSignal(This, busName, TRUE, FALSE, nameOwnerSubs)
       IN WithinBounds(t) /\ Becomes(t)
    /\ userStopped' = userStopped \ {busName}
    /\ pausedByUs' = pausedByUs \ {busName}
    /\ owned' = owned \ {busName}
    /\ cachedPlaying' = cachedPlaying \ {busName}
    /\ UNCHANGED enabled

Vanish == \E busName \in Players : VanishOf(busName)

(* A player enters the bus: NameOwnerChanged(name, '', new).  The replies   *)
(* to the calls sent to the previous owner of the name came before.        *)
Appear ==
  \E busName \in session \ owned :
    /\ Spend
    /\ getCalls[busName] = 0 /\ pauseCalls[busName] = 0 /\ playCalls[busName] = 0
    /\ LET t == OwnerSignal(This, busName, FALSE, TRUE, nameOwnerSubs)
       IN WithinBounds(t) /\ Becomes(t)
    /\ UNCHANGED << userStopped, pausedByUs >>
    /\ owned' = owned \cup {busName}
    /\ UNCHANGED << enabled, cachedPlaying >>

(* The user flips the Quick Settings toggle (the 'enabled' setting). *)
Toggle ==
  /\ Spend
  /\ enabled' = ~enabled
  /\ UNCHANGED << _settings, _idleId, _connection, _nameOwnerChangedId, _dbusProxy,
                  _players, _status, _autoPaused, _pausedStack, nameOwnerSubs,
                  propSubs, busGetCalls, dbusProxyCalls, listNamesCalls, proxyCalls,
                  getCalls, pauseCalls, playCalls, timeouts,
                  owned, cachedPlaying, userStopped, pausedByUs >>

Next ==
  \/ Enable
  \/ Disable
  \/ IdleCallback
  \/ BusGetDone
  \/ DBusProxyDone
  \/ ListNamesDone
  \/ PlayerProxyDone
  \/ GetDone
  \/ PauseDone
  \/ PlayDone
  \/ TimeoutFires
  \/ Notify
  \/ Vanish
  \/ Appear
  \/ Toggle

Spec == Init /\ [][Next]_vars

(***************************************************************************)
(* The session of two players with an initialization that succeeds and a   *)
(* setting that stays enabled: the players announce what they like and     *)
(* leave the bus, Pause and Play calls succeed or fail.  The GLib main     *)
(* loop runs every timeout that is due and the callback of every call that *)
(* returned.                                                               *)
(***************************************************************************)
InitLive == InitWith({"A", "B"}, MaxLiveEvents)

LiveBusGetDone == BusGetDoneOf(TRUE)

LiveDBusProxyDone == DBusProxyDoneOf(TRUE)

LiveListNamesDone == ListNamesDoneOf(TRUE)

LivePlayerProxyDone ==
  \E busName \in Players, cached \in {"Playing", "Paused"} :
    PlayerProxyDoneOf(busName, TRUE, cached)

NextLive ==
  \/ Enable
  \/ IdleCallback
  \/ LiveBusGetDone
  \/ LiveDBusProxyDone
  \/ LiveListNamesDone
  \/ LivePlayerProxyDone
  \/ PauseDone
  \/ PlayDone
  \/ TimeoutFires
  \/ Notify
  \/ Vanish

SpecLive ==
  /\ InitLive
  /\ [][NextLive]_vars
  /\ WF_vars(TimeoutFires)
  /\ WF_vars(PauseDone)
  /\ WF_vars(PlayDone)

(***************************************************************************)
(* The session of a late player: the initialization succeeds, and a player *)
(* may leave the bus and enter it again while the initialization runs, so  *)
(* that the NameOwnerChanged signal and the ListNames reply both name it.  *)
(* Calls succeed, the setting stays enabled.                               *)
(***************************************************************************)
InitOverlap == InitWith({"A", "B"}, MaxOverlapEvents)

WithinOverlap(t) ==
  /\ t.busGetCalls <= MaxSetup
  /\ t.dbusProxyCalls <= MaxSetup
  /\ t.listNamesCalls <= MaxSetup
  /\ t.nameOwnerSubs <= MaxSetup
  /\ \A p \in Players :
       /\ t.propSubs[p] <= MaxOverlap
       /\ t.proxyCalls[p] <= MaxOverlap
       /\ t.getCalls[p] <= MaxInFlight
       /\ t.pauseCalls[p] <= MaxInFlight
       /\ t.playCalls[p] <= MaxInFlight
       /\ t.timeouts[p] <= MaxInFlight

OverlapBusGetDone == BusGetDoneOf(TRUE)

OverlapDBusProxyDone == DBusProxyDoneOf(TRUE)

OverlapListNamesDone ==
  /\ listNamesCalls > 0
  /\ LET t == ListNamesCallback(This, TRUE, owned)
     IN WithinOverlap(t) /\ Becomes(t) /\ HistoryAfter(t)
  /\ EnvUnchanged

OverlapPlayerProxyDone ==
  \E busName \in owned, cached \in {"Playing", "Paused"} :
    /\ proxyCalls[busName] > 0
    /\ LET t == PlayerProxyCallback(This, enabled, busName, TRUE, cached)
       IN WithinOverlap(t) /\ Becomes(t) /\ HistoryAfter(t)
    /\ cachedPlaying' = IF cached = "Playing" THEN cachedPlaying \cup {busName}
                        ELSE cachedPlaying \ {busName}
    /\ UNCHANGED << enabled, owned, session, budget >>

OverlapPauseDone ==
  \E busName \in owned :
    /\ pauseCalls[busName] > 0
    /\ LET t == PauseCallback(This, busName, TRUE) IN WithinOverlap(t) /\ Becomes(t)
    /\ pausedByUs' = pausedByUs \cup {busName}
    /\ UNCHANGED userStopped
    /\ EnvUnchanged

OverlapNotify ==
  \E busName \in owned, status \in {"Playing", "Paused"} :
    /\ Spend
    /\ propSubs[busName] > 0
    /\ LET t == StatusSignal(This, enabled, busName, status, propSubs[busName])
           byUser == status = "Paused" /\ busName \notin _autoPaused
       IN /\ WithinOverlap(t) /\ Becomes(t)
          /\ userStopped' = (IF byUser /\ _settings /\ enabled
                              THEN userStopped \cup {busName} ELSE userStopped)
                             \ PauseIssued(t)
          /\ pausedByUs' = IF byUser THEN pausedByUs \ {busName} ELSE pausedByUs
    /\ cachedPlaying' = IF status = "Playing" THEN cachedPlaying \cup {busName}
                        ELSE cachedPlaying \ {busName}
    /\ UNCHANGED << enabled, owned >>

(* The player leaves the bus before the extension tracks it. *)
OverlapVanish ==
  \E busName \in Players : ~Has(_players, busName) /\ VanishOf(busName)

NextOverlap ==
  \/ Enable
  \/ IdleCallback
  \/ OverlapBusGetDone
  \/ OverlapDBusProxyDone
  \/ OverlapListNamesDone
  \/ OverlapPlayerProxyDone
  \/ OverlapPauseDone
  \/ OverlapNotify
  \/ OverlapVanish
  \/ Appear

SpecOverlap == InitOverlap /\ [][NextOverlap]_vars

(***************************************************************************)
(* A session of four players that all play when the extension starts:     *)
(* every call succeeds but Play, which may fail; a player announces the    *)
(* echo of its Pause call; only the player that plays, is not on the stack *)
(* and has no Pause call in flight stops, pauses or leaves the bus.        *)
(***************************************************************************)
InitLifo == InitWith(Players, MaxLifoEvents)

Current(busName) ==
  /\ Has(_players, busName) /\ _status[busName] = "Playing"
  /\ busName \in cachedPlaying
  /\ ~Has(_pausedStack, busName)
  /\ busName \notin _autoPaused /\ pauseCalls[busName] = 0

LifoBusGetDone == BusGetDoneOf(TRUE)

LifoDBusProxyDone == DBusProxyDoneOf(TRUE)

LifoListNamesDone == ListNamesDoneOf(TRUE)

LifoPlayerProxyDone == \E busName \in Players : PlayerProxyDoneOf(busName, TRUE, "Playing")

LifoPauseDone == \E busName \in Players : PauseDoneOf(busName, TRUE)

LifoEcho == \E busName \in _autoPaused : NotifyOf(busName, "Paused")

LifoStop ==
  \E busName \in Players, status \in {"Paused", "Stopped"} :
    Current(busName) /\ NotifyOf(busName, status)

LifoVanish == \E busName \in Players : Current(busName) /\ VanishOf(busName)

NextLifo ==
  \/ Enable
  \/ IdleCallback
  \/ LifoBusGetDone
  \/ LifoDBusProxyDone
  \/ LifoListNamesDone
  \/ LifoPlayerProxyDone
  \/ LifoPauseDone
  \/ PlayDone
  \/ TimeoutFires
  \/ LifoEcho
  \/ LifoStop
  \/ LifoVanish

SpecLifo == InitLifo /\ [][NextLifo]_vars

(***************************************************************************)
(* Vocabulary of the claims.                                               *)
(***************************************************************************)
Tracked(p) == Has(_players, p)

(* No Pause or Play call is in flight and no resume-delay timeout is pending. *)
Settled ==
  \A p \in Players : pauseCalls[p] = 0 /\ playCalls[p] = 0 /\ timeouts[p] = 0

PlayingPlayers == {p \in Players : Tracked(p) /\ _status[p] = "Playing"}

NoDuplicates(s) == \A i, j \in 1..Len(s) : s[i] = s[j] => i = j

(* C1: whenever no Pause or Play call is in flight and no resume-delay     *)
(* timeout is pending, at most one tracked player has status 'Playing'.    *)
C1_SinglePlayer == Settled => Cardinality(PlayingPlayers) <= 1

(* C2: the resume stack holds every bus name at most once. *)
C2_NoStackDuplicates == NoDuplicates(_pausedStack)

(* C2 happens: a Pause call is about to succeed for a player that is on    *)
(* the stack already.                                                      *)
C2_Witness ==
  \E p \in owned : _settings /\ Has(_pausedStack, p) /\ pauseCalls[p] > 0

(* C3: processing a 'Playing' notification of id while the engine is       *)
(* enabled issues one Pause call to every other tracked player whose       *)
(* status is 'Playing', and none to id or to a player whose status is not  *)
(* 'Playing'.                                                              *)
C3_PauseOthers ==
  \A id \in Players :
    _settings /\ enabled =>
      LET t == _onStatusChanged(This, enabled, id, "Playing")
      IN \A p \in Players :
           t.pauseCalls[p] =
             IF p # id /\ Tracked(p) /\ _status[p] = "Playing"
             THEN pauseCalls[p] + 1 ELSE pauseCalls[p]

(* C3 happens: id announced 'Playing' while p was 'Playing', and the Pause *)
(* call to p is in flight.                                                 *)
C3_Witness ==
  \E id, p \in Players :
    /\ id # p /\ _settings /\ enabled
    /\ Tracked(id) /\ _status[id] = "Playing" /\ pauseCalls[id] = 0
    /\ Tracked(p) /\ _status[p] = "Playing" /\ pauseCalls[p] > 0
    /\ p \in _autoPaused

(* The entries of the stack are tracked players with a status. *)
AllValid(s) == \A i \in 1..Len(s) : Tracked(s[i]) /\ _status[s[i]] # Absent

(* The topmost entry of the stack of t that _resumeNext does not skip, or  *)
(* Absent.                                                                 *)
TopValidOf(t) ==
  LET v == SelectSeq(t.pausedStack,
                     LAMBDA p : Has(t.players, p) /\ t.status[p] # Absent)
  IN IF v = << >> THEN Absent ELSE Head(v)

(* A user's stop was processed: a resume-delay timeout is pending, nothing *)
(* plays (in the registry and in the caches of the proxies), and top is    *)
(* the topmost still tracked entry of the stack.                           *)
ResumeDue(top) ==
  /\ _settings
  /\ \E x \in Players : timeouts[x] > 0
  /\ ~_anyPlaying(This) /\ cachedPlaying = {}
  /\ TopValidOf(This) = top

(* C4: when the player that plays is stopped by the user and top is the    *)
(* topmost tracked entry of the stack, then, the timeouts and the calls    *)
(* being run, a Play call is issued to top, unless a player starts to play *)
(* or top stops being the topmost tracked entry first; and when the only   *)
(* player that plays leaves the bus, the Play call is issued to the        *)
(* topmost tracked entry in the same step.                                 *)
C4_ResumeLiveness ==
  /\ \A top \in Players :
       ResumeDue(top) ~> ( \/ playCalls[top] > 0
                           \/ TopValidOf(This) # top
                           \/ _anyPlaying(This)
                           \/ cachedPlaying # {} )
  /\ [](\A x \in Players :
          ( /\ Tracked(x) /\ _status[x] = "Playing"
            /\ \A p \in Players \ {x} : _status[p] # "Playing" )
          => LET top == TopValidOf([This EXCEPT !.pausedStack = Without(@, x)])
                 t == _removePlayer(This, x)
             IN top # Absent =>
                  t.playCalls = [playCalls EXCEPT ![top] = @ + 1])

(* C4 happens: the user stopped the player that played, the timeout is     *)
(* pending and a tracked player is on the stack.                           *)
C4_Witness ==
  \E top \in Players, x \in Players :
    /\ x # top
    /\ ResumeDue(top) /\ timeouts[x] > 0 /\ playCalls[top] = 0
    /\ Tracked(x) /\ _status[x] \in {"Paused", "Stopped"} /\ x \in userStopped

(* C5: in the session of four, the stack is last in, first out.  A Pause   *)
(* call that succeeds puts its player on top; every step that issues Play  *)
(* takes the top entry and leaves the entries below as they were; and from *)
(* a stack << c, b, a >> of tracked players (a paused first, c last) three *)
(* successive resumes issue Play to c, then to b, then to a.               *)
C5_LifoOrder ==
  /\ [](\A a, b, c \in Players :
          _pausedStack = << c, b, a >> /\ AllValid(_pausedStack) =>
            LET r1 == _resumeNext(This)
                r2 == _resumeNext(r1)
                r3 == _resumeNext(r2)
            IN /\ r1.playCalls = [playCalls EXCEPT ![c] = @ + 1]
               /\ r2.playCalls = [r1.playCalls EXCEPT ![b] = @ + 1]
               /\ r3.playCalls = [r2.playCalls EXCEPT ![a] = @ + 1])
  /\ [][\A p \in Players :
          /\ pauseCalls'[p] < pauseCalls[p] =>
                _pausedStack' = << p >> \o Without(_pausedStack, p)
          /\ playCalls'[p] > playCalls[p] =>
                /\ _pausedStack # << >> /\ p = Head(_pausedStack)
                /\ _pausedStack' = Tail(_pausedStack)]_vars

(* C5 happens: A, B and C were paused in this order, D stopped, the resume *)
(* took C off the stack << C, B, A >> and its Play call is in flight.      *)
C5_Witness ==
  /\ _pausedStack = << "B", "A" >> /\ AllValid(_pausedStack)
  /\ playCalls["C"] = 1 /\ {"A", "B", "C"} \subseteq pausedByUs
  /\ _players = << "A", "B", "C", "D" >>
  /\ ~_anyPlaying(This)

(* C6: a player whose 'Paused' or 'Stopped' notification was processed     *)
(* while its flag was not set is not on the resume stack, until a Pause    *)
(* call is issued to it again.                                             *)
C6_UserStopFinality == \A p \in userStopped : ~Has(_pausedStack, p)

(* C7: every Play call goes to a player that a successful Pause call of    *)
(* the engine paused and that announced no 'Paused' or 'Stopped' of its    *)
(* own since.                                                              *)
C7_OnlyAutoPaused ==
  [][\A p \in Players : playCalls'[p] > playCalls[p] => p \in pausedByUs]_vars

(* C8: processing the 'Paused' or 'Stopped' notification of a player whose *)
(* flag is set records the status and clears the flag, and does nothing    *)
(* else: no Play call, no timeout, the resume stack as it was.             *)
C8_EchoSuppression ==
  \A busName \in _autoPaused, status \in {"Paused", "Stopped"} :
    _settings /\ enabled =>
      _onStatusChanged(This, enabled, busName, status)
        = [This EXCEPT !.status[busName] = status,
                       !.autoPaused = @ \ {busName}]

(* C8 happens: the Pause call to a player succeeded, the player is on the  *)
(* stack with its flag set, and its notification can arrive.               *)
C8_Witness ==
  \E busName \in _autoPaused :
    /\ _settings /\ enabled /\ budget > 0
    /\ busName \in owned /\ propSubs[busName] > 0
    /\ Has(_pausedStack, busName) /\ _status[busName] = "Paused"

(* C9: with B on the resume stack right above a tracked A, the removal of  *)
(* B takes B off the stack, and the next resume with nothing playing (the  *)
(* one of the removal itself when nothing is playing then) issues Play to  *)
(* A and to nobody else.                                                   *)
C9_DeadEntrySkip ==
  \A B, A \in Players :
    ( /\ Len(_pausedStack) >= 2
      /\ _pausedStack[1] = B /\ _pausedStack[2] = A /\ A # B
      /\ Tracked(A) /\ _status[A] # Absent )
    => LET t == _removePlayer(This, B)
           r == IF _anyPlaying(t) THEN _resumeNext(t) ELSE t
       IN /\ ~Has(t.pausedStack, B)
          /\ r.playCalls = [playCalls EXCEPT ![A] = @ + 1]

(* C9 happens: B is on the stack above A, both run, and B can leave. *)
C9_Witness ==
  \E B, A \in owned :
    /\ _settings /\ nameOwnerSubs > 0 /\ budget > 0
    /\ _pausedStack = << B, A >> /\ A # B
    /\ Tracked(A) /\ Tracked(B)

(* C10: when the proxies of X and then of Y are ready at startup and both  *)
(* cache 'Playing', no Pause call is issued to X, X stays 'Playing', and   *)
(* once the calls are done the stack is << Y >>.                           *)
C10_FirstObservedKept ==
  ( /\ budget = MaxEvents /\ enabled
    /\ Len(_players) = 2
    /\ \A p \in Range(_players) : p \in cachedPlaying )
  => LET X == _players[1]
         Y == _players[2]
     IN /\ pauseCalls[X] = 0 /\ X \notin _autoPaused
        /\ _status[X] = "Playing"
        /\ Settled => _pausedStack = << Y >>

(* C11: with X 'Playing', Y tracked and not 'Playing', an empty stack and  *)
(* no call in flight: Y's 'Playing' issues Pause to X; when that succeeds  *)
(* the stack is << X >>; Y's 'Paused' from the user and its timeout, with  *)
(* nothing playing, take X off the stack and issue Play to X; when that    *)
(* succeeds X is 'Playing' and the stack is empty.                         *)
C11_HandOver ==
  \A X, Y \in Players :
    ( /\ X # Y /\ _settings /\ enabled
      /\ Tracked(X) /\ Tracked(Y)
      /\ _status[X] = "Playing" /\ _status[Y] # "Playing"
      /\ \A p \in Players \ {X} : _status[p] # "Playing"
      /\ _pausedStack = << >>
      /\ \A p \in Players : pauseCalls[p] = 0 /\ playCalls[p] = 0 )
    => LET s1 == _onStatusChanged(This, enabled, Y, "Playing")
           s2 == PauseCallback(s1, X, TRUE)
           s3 == _onStatusChanged(s2, enabled, Y, "Paused")
           s4 == TimeoutCallback([s3 EXCEPT !.timeouts[Y] = @ - 1],
                                 cachedPlaying \ {Y}, Y)
           s5 == PlayCallback(s4, X, TRUE)
       IN /\ s1.pauseCalls = [pauseCalls EXCEPT ![X] = 1]
          /\ X \in s1.autoPaused /\ s1.status[Y] = "Playing"
          /\ s2.pausedStack = << X >> /\ s2.status[X] = "Paused"
          /\ s3.pausedStack = << X >> /\ s3.playCalls = playCalls
          /\ s3.timeouts[Y] = timeouts[Y] + 1
          /\ s4.pausedStack = << >>
          /\ s4.playCalls = [playCalls EXCEPT ![X] = 1]
          /\ s5.status[X] = "Playing" /\ s5.status[Y] = "Paused"
          /\ s5.pausedStack = << >>

(* C11 happens: X was paused by the engine and announced it, Y was paused  *)
(* by the user, and the Play call of the engine made X 'Playing' again.    *)
C11_Witness ==
  \E X, Y \in Players :
    /\ X # Y /\ _settings /\ Settled
    /\ Tracked(X) /\ Tracked(Y)
    /\ _status[X] = "Playing" /\ X \in pausedByUs /\ X \notin cachedPlaying
    /\ _status[Y] = "Paused" /\ Y \in userStopped
    /\ _pausedStack = << >>

(* The entries of the stack s below its topmost entry top. *)
RECURSIVE Below(_, _)
Below(s, top) ==
  IF s = << >> THEN << >>
  ELSE IF Head(s) = top THEN Tail(s) ELSE Below(Tail(s), top)

(* C12: the removal of id takes id out of the status map, of the           *)
(* auto-paused set and of the stack; when another player has status        *)
(* 'Playing' no Play call is issued and the rest of the stack stays; when  *)
(* none has, the resume runs: the Play call goes to the topmost entry that *)
(* is tracked, and that entry and those above it leave the stack.          *)
C12_Disappearance ==
  \A id \in Players :
    LET t == _removePlayer(This, id)
        rest == Without(_pausedStack, id)
        top == TopValidOf([This EXCEPT !.pausedStack = rest,
                                       !.players = Without(@, id)])
    IN /\ t.status[id] = Absent /\ id \notin t.autoPaused
       /\ ~Has(t.pausedStack, id) /\ ~Has(t.players, id)
       /\ t.autoPaused = _autoPaused \ {id}
       /\ \A p \in Players \ {id} : t.status[p] = _status[p]
       /\ t.pauseCalls = pauseCalls
       /\ IF \E p \in Players \ {id} : _status[p] = "Playing"
          THEN t.playCalls = playCalls /\ t.pausedStack = rest
          ELSE IF top = Absent
          THEN t.playCalls = playCalls /\ t.pausedStack = << >>
          ELSE /\ t.playCalls = [playCalls EXCEPT ![top] = @ + 1]
               /\ t.pausedStack = Below(rest, top)

(* C12 happens: id is tracked, on the stack with its flag set, another     *)
(* player plays, and id can leave the bus.                                 *)
C12_Witness ==
  \E id \in owned, p \in Players :
    /\ p # id /\ _settings /\ nameOwnerSubs > 0 /\ budget > 0
    /\ Tracked(id) /\ Has(_pausedStack, id) /\ id \in _autoPaused
    /\ Tracked(p) /\ _status[p] = "Playing"

(* C13: while the 'enabled' setting is off, a step that is not the         *)
(* callback of a Pause or Play call issues no Pause and no Play call.      *)
C13_DisabledIssuesNothing ==
  [][( /\ ~enabled
       /\ \A p \in Players : /\ pauseCalls'[p] >= pauseCalls[p]
                              /\ playCalls'[p] >= playCalls[p] )
     => pauseCalls' = pauseCalls /\ playCalls' = playCalls]_vars

(* C14: every bus name on the stack that has a status has the status      *)
(* 'Paused' or 'Stopped'.                                                  *)
C14_StackEntriesPaused ==
  \A i \in 1..Len(_pausedStack) :
    _status[_pausedStack[i]] \in {Absent, "Paused", "Stopped"}

(* C15: the flag of e is set only by a step that issues a Pause call to e, *)
(* and it is not set after any of: a 'Playing', 'Paused' or 'Stopped'      *)
(* notification of e is processed, a Pause call to e fails, a Play call to *)
(* e succeeds, e is removed.                                               *)
C15_FlagWindow ==
  /\ [](\A e \in Players :
          /\ \A status \in {"Playing", "Paused", "Stopped"} :
               _settings /\ enabled =>
                 e \notin _onStatusChanged(This, enabled, e, status).autoPaused
          /\ pauseCalls[e] > 0 => e \notin PauseCallback(This, e, FALSE).autoPaused
          /\ playCalls[e] > 0 => e \notin PlayCallback(This, e, TRUE).autoPaused
          /\ e \notin _removePlayer(This, e).autoPaused)
  /\ [][\A e \in Players :
          e \in _autoPaused' /\ e \notin _autoPaused
            => pauseCalls'[e] > pauseCalls[e]]_vars

(* C15 happens: the Pause call to e is in flight, e is still 'Playing' in  *)
(* the status map and its flag is set.                                     *)
C15_Witness ==
  \E e \in Players :
    /\ e \in _autoPaused /\ pauseCalls[e] > 0
    /\ Tracked(e) /\ _status[e] = "Playing" /\ ~Has(_pausedStack, e)

(* C16: processing a 'Paused' or 'Stopped' notification of id whose flag   *)
(* is not set takes id off the stack.                                      *)
C16_RemovedOnNotification ==
  \A id \in Players \ _autoPaused, status \in {"Paused", "Stopped"} :
    _settings /\ enabled =>
      ~Has(_onStatusChanged(This, enabled, id, status).pausedStack, id)

(* C17: right after _pausePlayer issues the Pause call to id, id is on top *)
(* of the stack and its flag is set.                                       *)
C17_PushAtIssue ==
  \A id \in Players :
    Tracked(id) =>
      LET t == _pausePlayer(This, id)
      IN /\ id \in t.autoPaused
         /\ t.pausedStack # << >> /\ Head(t.pausedStack) = id

(* C18: the callback of a Pause call to id that failed clears the flag of  *)
(* id and changes nothing else (no status, no stack entry, no new call);   *)
(* and every step that issues a Pause call to id is one in which another   *)
(* player becomes 'Playing' in the status map.                             *)
C18_PauseFailure ==
  /\ [](\A id \in Players :
          pauseCalls[id] > 0 =>
            PauseCallback(This, id, FALSE)
              = [This EXCEPT !.pauseCalls[id] = @ - 1,
                             !.autoPaused = @ \ {id}])
  /\ [][\A id \in Players :
          pauseCalls'[id] > pauseCalls[id] =>
            \E q \in Players \ {id} : _status'[q] = "Playing"]_vars

(* C18 happens: a Pause call to id failed: id is still 'Playing' in the    *)
(* status map next to the player that took over, its flag is cleared and   *)
(* no call is in flight.                                                   *)
C18_Witness ==
  \E id, q \in Players :
    /\ id # q /\ _settings /\ Settled
    /\ Tracked(id) /\ _status[id] = "Playing" /\ id \notin _autoPaused
    /\ Tracked(q) /\ _status[q] = "Playing" /\ _players = << id, q >>
    /\ ~Has(_pausedStack, id) /\ budget = MaxEvents

(* C19: the callback of a Pause call to id that succeeded sets the status  *)
(* of id to 'Paused' and puts id in front of the stack, any earlier entry  *)
(* of id removed and the other entries in the order they had.              *)
C19_PauseSuccess ==
  \A id \in Players :
    _settings /\ pauseCalls[id] > 0 =>
      LET t == PauseCallback(This, id, TRUE)
      IN /\ t.status = [_status EXCEPT ![id] = "Paused"]
         /\ t.pausedStack = << id >> \o Without(_pausedStack, id)

(* C19 happens: a Pause call to id is about to succeed while id is on the  *)
(* stack below another player.                                             *)
C19_Witness ==
  \E id \in owned :
    /\ _settings /\ pauseCalls[id] > 0
    /\ Len(_pausedStack) >= 2 /\ _pausedStack[2] = id

(* C20: the callback of a Play call to id that failed deletes id from the  *)
(* status map and from the auto-paused set.                                *)
C20_ResumeFailureDiscards ==
  \A id \in Players :
    _settings /\ playCalls[id] > 0 =>
      LET t == PlayCallback(This, id, FALSE)
      IN t.status[id] = Absent /\ id \notin t.autoPaused

(* C21: the callback of a Play call to id that succeeded sets the status   *)
(* of id to 'Playing' and clears its flag; id is not on the stack then,    *)
(* and the callback takes no entry off the stack and issues no call.       *)
C21_ResumeSuccess ==
  \A id \in Players :
    _settings /\ playCalls[id] > 0 =>
      LET t == PlayCallback(This, id, TRUE)
      IN /\ t.status = [_status EXCEPT ![id] = "Playing"]
         /\ t.autoPaused = _autoPaused \ {id}
         /\ ~Has(t.pausedStack, id)
         /\ t.pausedStack = _pausedStack
         /\ t.playCalls = [playCalls EXCEPT ![id] = @ - 1]
         /\ t.pauseCalls = pauseCalls

(* C22: at most one Play call is in flight. *)
C22_OnePlayInFlight ==
  \A p, q \in Players :
    /\ playCalls[p] <= 1
    /\ playCalls[p] > 0 /\ playCalls[q] > 0 => p = q

(* The run of _resumeNext in which every Play call fails: before is the    *)
(* extension before a call of _resumeNext, after the extension after it.   *)
(* Attempts is the sequence of the names a Play call went to, Drained the  *)
(* extension when the last catch block has returned.                       *)
RECURSIVE Attempts(_, _)
Attempts(before, after) ==
  IF \E p \in Players : after.playCalls[p] > before.playCalls[p]
  THEN LET p == CHOOSE q \in Players : after.playCalls[q] > before.playCalls[q]
       IN <<p>> \o Attempts(after, PlayCallback(after, p, FALSE))
  ELSE <<>>

RECURSIVE Drained(_, _)
Drained(before, after) ==
  IF \E p \in Players : after.playCalls[p] > before.playCalls[p]
  THEN LET p == CHOOSE q \in Players : after.playCalls[q] > before.playCalls[q]
       IN Drained(after, PlayCallback(after, p, FALSE))
  ELSE after

(* C23: a run of _resumeNext in which every Play call fails sends at most  *)
(* one Play call per stack entry, to names of the stack and to no name     *)
(* twice, and ends with an empty stack, no call in flight that the run     *)
(* issued and the status map as it was (nothing 'Playing' that was not).   *)
C23_ResumeTerminates ==
  _settings =>
    LET r == _resumeNext(This)
        a == Attempts(This, r)
        f == Drained(This, r)
    IN /\ Len(a) <= Len(_pausedStack)
       /\ NoDuplicates(a)
       /\ \A i \in 1..Len(a) : Has(_pausedStack, a[i])
       /\ f.pausedStack = <<>>
       /\ f.status = _status
       /\ f.playCalls = playCalls
       /\ f.settings

C23_Witness ==
  /\ _settings
  /\ Len(Attempts(This, _resumeNext(This))) >= 2
  /\ \A p \in Players : _status[p] # "Playing"

(* C24: a status notification with a value other than 'Playing', 'Paused' *)
(* and 'Stopped', of a tracked player whose status is one of the three,   *)
(* changes nothing.                                                        *)
C24_UnknownStatusIgnored ==
  \A id \in Players :
    /\ Tracked(id) /\ propSubs[id] > 0
    /\ _status[id] \in {"Playing", "Paused", "Stopped"}
    => _onStatusChanged(This, enabled, id, "Other") = This

(* C25: when the timer of a 'Paused' or 'Stopped' notification of id fires *)
(* and the tracked player id is 'Playing' again, the callback changes      *)
(* nothing: no entry leaves the stack, no call is issued.                  *)
C25_Freshness ==
  \A id \in Players :
    timeouts[id] > 0 /\ Tracked(id) /\ id \in cachedPlaying =>
      LET u == [This EXCEPT !.timeouts[id] = @ - 1]
      IN TimeoutCallback(u, cachedPlaying, id) = u

(* the stack holds an entry and nothing else is 'Playing': the callback *)
(* would resume if it did not look at the status of id.                 *)
C25_Witness ==
  \E id \in Players :
    /\ timeouts[id] > 0 /\ Tracked(id) /\ id \in cachedPlaying
    /\ _settings
    /\ \A p \in Players : _status[p] # "Playing"
    /\ \E p \in Players \ {id} : Has(_pausedStack, p) /\ Tracked(p)

(* C26: when a 'Playing' notification of id has been handled, id is not on *)
(* the stack, its flag is cleared and its status is 'Playing'.             *)
C26_AfterPlaying ==
  \A id \in Players :
    _settings /\ enabled =>
      LET t == _onStatusChanged(This, enabled, id, "Playing")
      IN /\ ~Has(t.pausedStack, id)
         /\ id \notin t.autoPaused
         /\ t.status[id] = "Playing"

C26_Witness ==
  \E id \in Players :
    /\ _settings /\ enabled /\ Tracked(id)
    /\ Has(_pausedStack, id) /\ id \in _autoPaused
    /\ _status[id] = "Paused"

(* C27: a second _removePlayer of the same name, right after the first,   *)
(* leaves the status map, the flag set and the stack as the first left     *)
(* them and issues no call.                                                *)
C27_RemovalIdempotent ==
  \A id \in Players :
    _settings /\ nameOwnerSubs > 0 =>
      LET t1 == _removePlayer(This, id)
          t2 == _removePlayer(t1, id)
      IN /\ t2.status = t1.status
         /\ t2.autoPaused = t1.autoPaused
         /\ t2.pausedStack = t1.pausedStack
         /\ t2.playCalls = t1.playCalls
         /\ t2.pauseCalls = t1.pauseCalls

(* C28: a name enters the stack only in the step in which a Pause call    *)
(* the extension sent to it returns with success; the name goes on top.    *)
C28_GrowsByAutoPause ==
  [][\A p \in Players :
       Has(_pausedStack', p) /\ ~Has(_pausedStack, p) =>
         /\ _settings
         /\ pauseCalls[p] > 0
         /\ pauseCalls' = [pauseCalls EXCEPT ![p] = @ - 1]
         /\ _status' = [_status EXCEPT ![p] = "Paused"]
         /\ _pausedStack' = <<p>> \o _pausedStack
         /\ playCalls' = playCalls /\ timeouts' = timeouts]_vars

(* a name paused by the extension is stacked while a Play call to another *)
(* name and a timer are outstanding                                       *)
C28_Witness ==
  \E p, q \in Players :
    /\ p # q
    /\ Has(_pausedStack, p) /\ p \in pausedByUs
    /\ playCalls[q] > 0
    /\ \E x \in Players : timeouts[x] > 0

(* The extension when the proxy of busName is ready with the cached status *)
(* and, for 'Stopped', the Get call of _updatePlayerStatus has returned it. *)
FoundWith(t, en, busName, cached) ==
  LET u == PlayerProxyCallback(t, en, busName, TRUE, cached)
  IN IF cached = "Stopped" THEN GetCallback(u, en, busName, TRUE, cached) ELSE u

(* C29: a player found 'Paused' or 'Stopped' when its proxy is ready is    *)
(* tracked with that status; the stack is as it was, no Pause call is      *)
(* issued and no flag is set.                                              *)
C29_FoundNotPlaying ==
  \A id \in Players, cached \in {"Paused", "Stopped"} :
    _connection /\ _settings /\ enabled /\ proxyCalls[id] > 0 =>
      LET t == FoundWith(This, enabled, id, cached)
      IN /\ Has(t.players, id)
         /\ t.status = [_status EXCEPT ![id] = cached]
         /\ t.pausedStack = _pausedStack
         /\ t.pauseCalls = pauseCalls
         /\ t.playCalls = playCalls
         /\ t.autoPaused \subseteq _autoPaused

(* id was found 'Paused' at start-up, next to a player found 'Playing' *)
C29_Witness ==
  \E id \in Players :
    /\ Tracked(id) /\ _status[id] = "Paused"
    /\ budget = MaxEvents /\ id \notin pausedByUs /\ pauseCalls[id] = 0
    /\ timeouts[id] > 0
    /\ _pausedStack = <<>>
    /\ \E q \in Players \ {id} : Tracked(q) /\ _status[q] = "Playing"

(* C30: while the extension is disabled (from disable() to the next        *)
(* enable()) the tracked players, the status map, the flag set and the     *)
(* stack are empty, whatever callback runs.                                *)
C30_DisabledEmpty ==
  ~_settings =>
    /\ _players = <<>>
    /\ \A p \in Players : _status[p] = Absent
    /\ _autoPaused = {}
    /\ _pausedStack = <<>>

(* disabled with a Pause call, a Play call or a timer still outstanding *)
C30_Witness ==
  /\ ~_settings
  /\ \E p \in Players : pauseCalls[p] > 0 \/ playCalls[p] > 0
  /\ \E p \in Players : timeouts[p] > 0
  /\ busGetCalls + dbusProxyCalls + listNamesCalls > 0

(* C31: when disable() returns, no PropertiesChanged subscription and no   *)
(* NameOwnerChanged subscription of the extension is active.               *)
C31_DisableUnsubscribes ==
  [][_settings /\ ~_settings' =>
       /\ nameOwnerSubs' = 0
       /\ \A p \in Players : propSubs'[p] = 0]_vars

(* C32: no resume-delay timer is left by disable(): the callback of a      *)
(* timer runs in a state in which the extension is enabled.                *)
C32_DisableRemovesTimers ==
  [][\A p \in Players : timeouts'[p] < timeouts[p] => _settings]_vars

(* C33: when the disappearance of id has been handled while the proxy of   *)
(* id was being created, the proxy-ready callback neither tracks id nor    *)
(* gives it a status, also not when the Get call it issues has failed.     *)
C33_RemovedWhileConnecting ==
  \A id \in Players :
    /\ _settings /\ _connection /\ nameOwnerSubs > 0
    /\ id \in owned /\ proxyCalls[id] > 0
    => LET t1 == _onNameOwnerChanged(This, id, TRUE, FALSE)
           t2 == PlayerProxyCallback(t1, enabled, id, TRUE, "Stopped")
           t3 == IF t2.getCalls[id] > t1.getCalls[id]
                 THEN GetCallback(t2, enabled, id, FALSE, "Stopped") ELSE t2
       IN /\ ~Has(t2.players, id)
          /\ t3.status[id] = Absent

(* C34: every name with a status, a flag or a stack entry is the name of a *)
(* tracked player.                                                         *)
C34_NoGhostEntries ==
  \A p \in Players :
    _status[p] # Absent \/ p \in _autoPaused \/ Has(_pausedStack, p)
      => Has(_players, p)

(* C35: a step that issues a Play call ends in a state in which no tracked *)
(* player has status 'Playing'.                                            *)
C35_NoPlayWhilePlaying ==
  [][(\E p \in Players : playCalls'[p] > playCalls[p]) =>
       \A q \in Players : ~(Has(_players', q) /\ _status'[q] = "Playing")]_vars

(* C36: disable() issues no Play call and no Pause call. *)
C36_DisableIssuesNothing ==
  [][_settings /\ ~_settings' =>
       /\ \A p \in Players : playCalls'[p] <= playCalls[p]
       /\ \A p \in Players : pauseCalls'[p] <= pauseCalls[p]]_vars

(* C37: a tracked player has at most one PropertiesChanged subscription,   *)
(* so that one status change runs _onStatusChanged once.                   *)
C37_OneSubscription ==
  \A p \in Players : Has(_players, p) => propSubs[p] <= 1

(* C38: when a 'Playing' notification of id is handled while a Pause call  *)
(* to id is in flight, the success of that call neither stacks id nor sets *)
(* its status to 'Paused'.                                                 *)
C38_PlayingSupersedesPause ==
  \A id \in Players :
    /\ _settings /\ enabled
    /\ Has(_players, id) /\ propSubs[id] > 0 /\ id \in owned
    /\ pauseCalls[id] = 1
    => LET t1 == _onStatusChanged(This, enabled, id, "Playing")
           t2 == PauseCallback(t1, id, TRUE)
       IN /\ ~Has(t2.pausedStack, id)
          /\ t2.status[id] # "Paused"

(* C39: with the 'enabled' setting false, _onStatusChanged changes nothing.*)
C39_DisabledNotification ==
  _settings /\ ~enabled =>
    \A id \in Players, status \in Statuses :
      _onStatusChanged(This, enabled, id, status) = This

(* the setting is false and a tracked player has announced 'Playing',      *)
(* which the status map does not show                                      *)
C39_Witness ==
  \E id \in Players :
    /\ _settings /\ ~enabled
    /\ Has(_players, id) /\ propSubs[id] > 0
    /\ id \in cachedPlaying /\ _status[id] = "Paused"

====
